---- MODULE Spec2Model ----
(***************************************************************************)
(* FutureUniverseSelectionModel                                            *)
(* (Algorithm.Framework/Selection/FutureUniverseSelectionModel.py).        *)
(*                                                                         *)
(* The model holds one instance of the selection model together with the   *)
(* algorithm it is driven by: the engine clock (algorithm.UtcTime), the    *)
(* security registry (algorithm.Securities) and the generator object that  *)
(* a call of CreateUniverses returns.  CreateUniverses is a Python         *)
(* generator: its body runs only while the consumer asks for an element,   *)
(* from one yield to the next, so each resumption is one action.           *)
(***************************************************************************)
EXTENDS Naturals, Sequences, FiniteSets

\* ---------------------------------------------------------------- bounds
MaxLen == 2          \* longest result of the symbol selector
MaxTime == 1         \* last engine time the clock reaches
MaxInterval == 1     \* largest refreshInterval given at construction
MaxDirect == 1       \* registry size up to which CreateFutureChainSecurity is called directly

\* datetime.min, the smallest time there is (line 30)
DateTimeMin == 0

Times == DateTimeMin..MaxTime

\* ------------------------------------------------------------ identifiers
\* A Symbol as the model reads it: SecurityType, ID.Market, Value and
\* IsCanonical(); Contract is the part of the ID that tells the concrete
\* contracts of one underlying apart (0 for a canonical symbol).
Concrete(value, market, contract) ==
    [SecurityType |-> "Future", Market |-> market, Value |-> value,
     Canonical |-> FALSE, Contract |-> contract]

\* Symbol.Create(ticker, securityType, market, alias): a canonical symbol of
\* that type and market whose Value is the alias.
SymbolCreate(ticker, securityType, market, alias) ==
    [SecurityType |-> securityType, Market |-> market, Value |-> alias,
     Canonical |-> TRUE, Contract |-> 0]

IsCanonical(symbol) == symbol.Canonical

EquitySymbol ==
    [SecurityType |-> "Equity", Market |-> "USA", Value |-> "SPY",
     Canonical |-> FALSE, Contract |-> 0]

\* The identifiers a selector or a caller hands in.
FutureSymbols ==
    { Concrete("ES", "CME", 1), Concrete("ES", "CME", 2),
      SymbolCreate("ES", "Future", "CME", "/ES"),
      Concrete("NQ", "CME", 1) }

Symbols == FutureSymbols \cup {EquitySymbol}

\* The filter universes a caller hands to Filter.
FilterUniverses == {"contracts", "frontMonth"}

\* Every result the selector can return: a sequence of at most MaxLen symbols.
Selections == UNION { [1..n -> Symbols] : n \in 0..MaxLen }

\* ---------------------------------------------------------------- state
VARIABLES
    UtcTime,             \* algorithm.UtcTime
    nextRefreshTimeUtc,  \* self.nextRefreshTimeUtc
    refreshInterval,     \* self.refreshInterval
    universeSettings,    \* self.universeSettings ("None" when not given)
    Securities,          \* algorithm.Securities, in insertion order
    genState,            \* the generator: none, created, suspended, done, failed, closed
    selection,           \* what the selector returned to this generator
    pos,                 \* index of the next candidate the loop takes
    uniqueSymbols,       \* the generator's local uniqueSymbols
    yielded,             \* the universes this generator has yielded
    genError,            \* the exception that ended the generator
    startTime,           \* algorithm.UtcTime when the body last started running
    sizeAtStart,         \* how many securities there were when this body started
    started,             \* whether the body of CreateUniverses has ever started
    calls,               \* the CreateFutureChain invocations running side by side
    ret                  \* the last operation and what it returned

vars == <<UtcTime, nextRefreshTimeUtc, refreshInterval, universeSettings,
          Securities, genState, selection, pos, uniqueSymbols, yielded,
          genError, startTime, sizeAtStart, started, calls, ret>>

genVars == <<genState, selection, pos, uniqueSymbols, yielded, genError, startTime,
            sizeAtStart>>

\* No symbol and no universe: what an operation that takes or returns none
\* leaves in ret.
NoSymbol ==
    [SecurityType |-> "None", Market |-> "", Value |-> "", Canonical |-> FALSE,
     Contract |-> 0]

NoUniverse == [chain |-> 0, Key |-> NoSymbol, settings |-> "None", filter |-> "none"]

\* An operation, the symbol or filter universe it was given, what it
\* returned (a time, a universe, a filter universe, or the exception it
\* raised), and whether it created a security.
Ret(op, symbol, time, universe, error, filter) ==
    [op |-> op, symbol |-> symbol, time |-> time, universe |-> universe,
     error |-> error, filter |-> filter, argument |-> "none", created |-> FALSE]

\* The invocations of CreateFutureChain that may run side by side, and one
\* that has not begun: where it stands, its canonical symbol, what its lookup
\* found, the security it holds, and whether it looked the registry up while
\* the other stood between its own lookup and its create.
Invocations == {1, 2}

NoCall == [pc |-> "idle", symbol |-> NoSymbol, found |-> <<>>, chain |-> 0,
           overlap |-> FALSE]

\* A model whose first poll is not due.
InitNotDue ==
    /\ UtcTime = DateTimeMin
    /\ nextRefreshTimeUtc = DateTimeMin + 1
    /\ refreshInterval \in 0..MaxInterval
    /\ universeSettings \in {"None", "custom"}
    /\ Securities = <<>>
    /\ genState = "none"
    /\ selection = <<>>
    /\ pos = 1
    /\ uniqueSymbols = {}
    /\ yielded = <<>>
    /\ genError = "none"
    /\ startTime = DateTimeMin
    /\ sizeAtStart = 0
    /\ started = FALSE
    /\ calls = [t \in Invocations |-> NoCall]
    /\ ret = Ret("__init__", NoSymbol, DateTimeMin, NoUniverse, "none", "none")

\* ------------------------------------------------------------- __init__
Init ==
    /\ UtcTime = DateTimeMin
    /\ nextRefreshTimeUtc = DateTimeMin
    /\ refreshInterval \in 0..MaxInterval
    /\ universeSettings \in {"None", "custom"}
    /\ Securities = <<>>
    /\ genState = "none"
    /\ selection = <<>>
    /\ pos = 1
    /\ uniqueSymbols = {}
    /\ yielded = <<>>
    /\ genError = "none"
    /\ startTime = DateTimeMin
    /\ sizeAtStart = 0
    /\ started = FALSE
    /\ calls = [t \in Invocations |-> NoCall]
    /\ ret = Ret("__init__", NoSymbol, DateTimeMin, NoUniverse, "none", "none")

\* ------------------------------------------------------ pure operations
\* A schedule that forgets the interval.
AdvanceScheduleNoInterval(utcTime) == utcTime

\* self.nextRefreshTimeUtc = algorithm.UtcTime + self.refreshInterval (line 46)
AdvanceSchedule(utcTime) == utcTime + refreshInterval

\* A rewrite that does not ask whether the symbol is canonical already.
CanonicalizeAlways(symbol) ==
    SymbolCreate(symbol.Value, "Future", symbol.Market, "/" \o symbol.Value)

\* A rewrite that marks the symbol canonical and keeps the rest of its ID.
CanonicalizeInPlace(symbol) ==
    IF ~IsCanonical(symbol)
    THEN [symbol EXCEPT !.Value = "/" \o symbol.Value, !.Canonical = TRUE]
    ELSE symbol

\* "rewrite non-canonical symbols to be canonical" (lines 68-71)
Canonicalize(symbol) ==
    IF ~IsCanonical(symbol)
    THEN SymbolCreate(symbol.Value, "Future", symbol.Market, "/" \o symbol.Value)
    ELSE symbol

\* "resolve defaults if not specified" (line 74); the algorithm's own
\* settings are algorithm.UniverseSettings.
\* Settings that ignore what the caller supplied.
EffectiveSettingsDefault == "algorithm.UniverseSettings"

EffectiveSettings ==
    IF universeSettings # "None" THEN universeSettings ELSE "algorithm.UniverseSettings"

\* A lookup that never finds the security.
MatchingNothing(securities, symbol) == <<>>

\* [s for s in algorithm.Securities if s.Key == symbol] (line 76)
Matching(securities, symbol) == SelectSeq(securities, LAMBDA s : s.Key = symbol)

\* algorithm.Securities.CreateSecurity(symbol, config, leverage, False): the
\* registry materialises a new security object for the symbol and holds it.
CreateSecurity(securities, symbol, settings) ==
    Append(securities,
           [Key |-> symbol, id |-> Len(securities) + 1, settings |-> settings,
            filter |-> "none"])

\* CreateFutureChainSecurity (lines 87-102): the subscription is configured
\* from the settings and the security created; the registry after the call,
\* whose last element is the security returned.
CreateFutureChainSecurity(securities, symbol, settings) ==
    CreateSecurity(securities, symbol, settings)

\* A filter that lets nothing through.
FilterNothing(filter) == "empty"

\* Filter (lines 104-107)
Filter(filter) == filter

\* A chain whose filter is never set.
SetFilterSkipped(securities, id) == securities

\* futureChain.SetFilter(self.Filter) (line 83) on the security with that id
SetFilter(securities, id) == [securities EXCEPT ![id].filter = "self.Filter"]

\* A chain that is given a new security in place of the one the registry has.
\* A CreateFutureChain without the type check of lines 65-66.
CreateFutureChainUnchecked(securities, symbol) ==
    LET canonical == Canonicalize(symbol)
        settings == EffectiveSettings
        found == Matching(securities, canonical)
        created == IF Len(found) = 0
                   THEN CreateFutureChainSecurity(securities, canonical, settings)
                   ELSE securities
        futureChain == IF Len(found) = 0 THEN created[Len(created)] ELSE found[1]
        after == SetFilter(created, futureChain.id)
    IN  [error |-> "none",
         securities |-> after,
         universe |-> [chain |-> futureChain.id, Key |-> canonical,
                       settings |-> settings,
                       filter |-> after[futureChain.id].filter],
         created |-> Len(found) = 0]

CreateFutureChainReplacing(securities, symbol) ==
    IF symbol.SecurityType # "Future"
    THEN [error |-> "ValueError", securities |-> securities, universe |-> NoUniverse,
          created |-> FALSE]
    ELSE LET canonical == Canonicalize(symbol)
             settings == EffectiveSettings
             others == SelectSeq(securities, LAMBDA s : s.Key # canonical)
             created == CreateFutureChainSecurity(others, canonical, settings)
             after == [created EXCEPT ![Len(created)].filter = "self.Filter"]
         IN  [error |-> "none",
              securities |-> after,
              universe |-> [chain |-> Len(after), Key |-> canonical,
                            settings |-> settings, filter |-> "self.Filter"],
              created |-> TRUE]

\* CreateFutureChain (lines 58-85): the exception raised, the registry after
\* the call, the FuturesChainUniverse returned (its chain security, the
\* security's symbol and filter, the settings), and whether the security was
\* created by this call (line 78) or found (line 80).
CreateFutureChain(securities, symbol) ==
    IF symbol.SecurityType # "Future"
    THEN [error |-> "ValueError", securities |-> securities, universe |-> NoUniverse,
          created |-> FALSE]
    ELSE LET canonical == Canonicalize(symbol)
             settings == EffectiveSettings
             found == Matching(securities, canonical)
             created == IF Len(found) = 0
                        THEN CreateFutureChainSecurity(securities, canonical, settings)
                        ELSE securities
             futureChain == IF Len(found) = 0 THEN created[Len(created)] ELSE found[1]
             after == SetFilter(created, futureChain.id)
         IN  [error |-> "none",
              securities |-> after,
              universe |-> [chain |-> futureChain.id, Key |-> canonical,
                            settings |-> settings,
                            filter |-> after[futureChain.id].filter],
              created |-> Len(found) = 0]

\* A loop that passes over a symbol of the wrong type instead of raising.
RECURSIVE RunLoopSkipping(_, _, _)
RunLoopSkipping(candidates, i, unique) ==
    IF i > Len(candidates)
    THEN [kind |-> "stop", pos |-> i, unique |-> unique]
    ELSE IF candidates[i].SecurityType = "Future" /\ candidates[i] \notin unique
    THEN [kind |-> "yield", pos |-> i + 1, unique |-> unique \cup {candidates[i]}]
    ELSE RunLoopSkipping(candidates, i + 1, unique)

\* A loop that looks through the whole selection for a symbol of the wrong
\* type before it yields anything.
RECURSIVE RunLoopValidatingFirst(_, _, _)
RunLoopValidatingFirst(candidates, i, unique) ==
    LET bad == { j \in 1..Len(candidates) : candidates[j].SecurityType # "Future" }
    IN  IF bad # {}
        THEN [kind |-> "raise", pos |-> CHOOSE j \in bad : \A k \in bad : j <= k,
              unique |-> unique]
        ELSE IF i > Len(candidates)
        THEN [kind |-> "stop", pos |-> i, unique |-> unique]
        ELSE IF candidates[i] \notin unique
        THEN [kind |-> "yield", pos |-> i + 1, unique |-> unique \cup {candidates[i]}]
        ELSE RunLoopValidatingFirst(candidates, i + 1, unique)

\* The for loop of CreateUniverses (lines 49-56) from candidate i on, up to
\* the next yield, the raise of line 51, or the end of the selection.
RECURSIVE RunLoop(_, _, _)
RunLoop(candidates, i, unique) ==
    IF i > Len(candidates)
    THEN [kind |-> "stop", pos |-> i, unique |-> unique]
    ELSE IF candidates[i].SecurityType # "Future"
    THEN [kind |-> "raise", pos |-> i, unique |-> unique]
    ELSE IF candidates[i] \notin unique
    THEN [kind |-> "yield", pos |-> i + 1, unique |-> unique \cup {candidates[i]}]
    ELSE RunLoop(candidates, i + 1, unique)

\* -------------------------------------------------------------- actions
\* A generator that has ended or was dropped is released by its consumer
\* before the engine calls anything else; one that is still alive is kept.
GeneratorKept ==
    IF genState \in {"done", "failed", "closed"}
    THEN /\ genState' = "none"
         /\ selection' = <<>>
         /\ pos' = 1
         /\ uniqueSymbols' = {}
         /\ yielded' = <<>>
         /\ genError' = "none"
         /\ startTime' = startTime
         /\ sizeAtStart' = 0
    ELSE UNCHANGED genVars

\* The engine clock moves on; the engine takes the universes of a cycle
\* within one time step.
Tick ==
    /\ UtcTime < MaxTime
    /\ genState # "suspended"
    /\ UtcTime' = UtcTime + 1
    /\ ret' = Ret("Tick", NoSymbol, DateTimeMin, NoUniverse, "none", "none")
    /\ UNCHANGED <<nextRefreshTimeUtc, refreshInterval, universeSettings, Securities, started, calls>>
    /\ GeneratorKept

\* A read that resets the schedule it reads.
GetNextRefreshTimeUtcResetting ==
    /\ ret' = Ret("GetNextRefreshTimeUtc", NoSymbol, nextRefreshTimeUtc, NoUniverse, "none", "none")
    /\ nextRefreshTimeUtc' = DateTimeMin
    /\ UNCHANGED <<UtcTime, refreshInterval, universeSettings, Securities, started, calls>>
    /\ GeneratorKept

\* GetNextRefreshTimeUtc (lines 36-38)
GetNextRefreshTimeUtc ==
    /\ ret' = Ret("GetNextRefreshTimeUtc", NoSymbol, nextRefreshTimeUtc, NoUniverse, "none", "none")
    /\ UNCHANGED <<UtcTime, nextRefreshTimeUtc, refreshInterval, universeSettings,
                   Securities, started, calls>>
    /\ GeneratorKept

\* A CreateUniverses that advances the schedule when it is called.
CreateUniversesEager ==
    /\ genState \in {"none", "done", "failed", "closed"}
    /\ genState' = "created"
    /\ selection' = <<>>
    /\ pos' = 1
    /\ uniqueSymbols' = {}
    /\ yielded' = <<>>
    /\ genError' = "none"
    /\ startTime' = startTime
    /\ sizeAtStart' = 0
    /\ nextRefreshTimeUtc' = AdvanceSchedule(UtcTime)
    /\ ret' = Ret("CreateUniverses", NoSymbol, DateTimeMin, NoUniverse, "none", "none")
    /\ UNCHANGED <<UtcTime, refreshInterval, universeSettings, Securities, started, calls>>

\* CreateUniverses(algorithm) is called (line 40): a generator object is
\* returned and none of the body has run.
CreateUniverses ==
    /\ genState \in {"none", "done", "failed", "closed"}
    /\ genState' = "created"
    /\ selection' = <<>>
    /\ pos' = 1
    /\ uniqueSymbols' = {}
    /\ yielded' = <<>>
    /\ genError' = "none"
    /\ startTime' = startTime
    /\ sizeAtStart' = 0
    /\ ret' = Ret("CreateUniverses", NoSymbol, DateTimeMin, NoUniverse, "none", "none")
    /\ UNCHANGED <<UtcTime, nextRefreshTimeUtc, refreshInterval, universeSettings,
                   Securities, started, calls>>

\* The rest of a resumption once the candidates are known: the loop runs to
\* its next yield (CreateFutureChain is called and its universe handed out),
\* to the raise of line 51, or to its end.
Resume(candidates, i, unique) ==
    LET r == RunLoop(candidates, i, unique)
        chain == CreateFutureChain(Securities, candidates[r.pos - 1])
    IN  /\ pos' = r.pos
        /\ uniqueSymbols' = r.unique
        /\ IF r.kind = "yield"
           THEN /\ genState' = "suspended"
                /\ genError' = "none"
                /\ Securities' = chain.securities
                /\ yielded' = Append(yielded, chain.universe)
                /\ ret' = [Ret("next", candidates[r.pos - 1], DateTimeMin,
                                chain.universe, "none", "none")
                               EXCEPT !.created = chain.created]
           ELSE /\ genState' = IF r.kind = "raise" THEN "failed" ELSE "done"
                /\ genError' = IF r.kind = "raise" THEN "ValueError" ELSE "StopIteration"
                /\ Securities' = Securities
                /\ yielded' = yielded
                /\ ret' = Ret("next", NoSymbol, DateTimeMin, NoUniverse, genError', "none")

\* The consumer asks for the first element: the body starts (lines 46-49).
\* The schedule is advanced, then the selector is called with
\* algorithm.UtcTime; it returns its candidates or raises.
NextFirst ==
    /\ genState = "created"
    /\ nextRefreshTimeUtc' = AdvanceSchedule(UtcTime)
    /\ startTime' = UtcTime
    /\ sizeAtStart' = Len(Securities)
    /\ started' = TRUE
    /\ \/ \E candidates \in Selections :
            /\ selection' = candidates
            /\ Resume(candidates, 1, {})
       \/ /\ genState' = "failed"
          /\ genError' = "SelectorError"
          /\ ret' = Ret("next", NoSymbol, DateTimeMin, NoUniverse, "SelectorError", "none")
          /\ UNCHANGED <<selection, pos, uniqueSymbols, yielded, Securities>>
    /\ UNCHANGED <<UtcTime, refreshInterval, universeSettings, calls>>

\* The consumer asks for a further element: the body goes on after the yield
\* of line 56.
NextAgain ==
    /\ genState = "suspended"
    /\ Resume(selection, pos, uniqueSymbols)
    /\ UNCHANGED <<UtcTime, nextRefreshTimeUtc, refreshInterval, universeSettings,
                   selection, startTime, sizeAtStart, started, calls>>

\* The consumer drops the generator without running it to its end.
Close ==
    /\ genState \in {"created", "suspended"}
    /\ genState' = "closed"
    /\ ret' = Ret("close", NoSymbol, DateTimeMin, NoUniverse, "none", "none")
    /\ UNCHANGED <<UtcTime, nextRefreshTimeUtc, refreshInterval, universeSettings,
                   Securities, selection, pos, uniqueSymbols, yielded, genError,
                   startTime, sizeAtStart, started, calls>>

\* CreateFutureChain called directly with a symbol.  The engine is one
\* thread: while it is taking the universes of a cycle it calls nothing else
\* of the model but the poll.
CallCreateFutureChain ==
    \E symbol \in Symbols :
        LET chain == CreateFutureChain(Securities, symbol)
        IN  /\ genState # "suspended"
            /\ Securities' = chain.securities
            /\ ret' = [Ret("CreateFutureChain", symbol, DateTimeMin, chain.universe,
                           chain.error, "none")
                          EXCEPT !.created = chain.created]
            /\ UNCHANGED <<UtcTime, nextRefreshTimeUtc, refreshInterval,
                           universeSettings, started, calls>>
            /\ GeneratorKept

\* CreateFutureChainSecurity called directly with a canonical symbol.
CallCreateFutureChainSecurity ==
    /\ Len(Securities) < MaxDirect
    /\ genState # "suspended"
    /\ \E symbol \in {Canonicalize(s) : s \in FutureSymbols} :
        /\ Securities' = CreateFutureChainSecurity(Securities, symbol, EffectiveSettings)
        /\ ret' = [Ret("CreateFutureChainSecurity", symbol, DateTimeMin,
                       [NoUniverse EXCEPT !.chain = Len(Securities')], "none", "none")
                      EXCEPT !.created = TRUE]
    /\ UNCHANGED <<UtcTime, nextRefreshTimeUtc, refreshInterval, universeSettings, started, calls>>
    /\ GeneratorKept

\* Filter called directly with a filter universe.
CallFilter ==
    /\ genState # "suspended"
    /\ \E filter \in FilterUniverses :
        ret' = [Ret("Filter", NoSymbol, DateTimeMin, NoUniverse, "none", Filter(filter))
                    EXCEPT !.argument = filter]
    /\ UNCHANGED <<UtcTime, nextRefreshTimeUtc, refreshInterval, universeSettings,
                   Securities, started, calls>>
    /\ GeneratorKept

\* The engine's use of the model: it polls, runs refresh cycles, and may ask
\* for a chain itself, one call at a time.
Next ==
    \/ Tick
    \/ GetNextRefreshTimeUtc
    \/ CreateUniverses
    \/ NextFirst
    \/ NextAgain
    \/ Close
    \/ CallCreateFutureChain

Spec == Init /\ [][Next]_vars

\* Every method of the class called in any order.
NextDirect ==
    \/ Next
    \/ CallCreateFutureChainSecurity
    \/ CallFilter

SpecDirect == Init /\ [][NextDirect]_vars

\* The refresh cycles alone: the engine polls and takes universes, and
\* nothing else puts a security in the registry.
NextCycles ==
    \/ Tick
    \/ GetNextRefreshTimeUtc
    \/ CreateUniverses
    \/ NextFirst
    \/ NextAgain
    \/ Close

SpecCycles == Init /\ [][NextCycles]_vars

\* ------------------------------------------------- calls side by side
\* Two invocations of CreateFutureChain whose statements interleave: each
\* takes its steps in program order, and between any two of them the other
\* may take steps of its own.
hostVars == <<UtcTime, nextRefreshTimeUtc, refreshInterval, universeSettings,
              genState, selection, pos, uniqueSymbols, yielded, genError,
              startTime, sizeAtStart, started>>

\* Lines 65-74: the symbol is a future; it is made canonical and the
\* settings are resolved.
RaceBegin(t) ==
    /\ calls[t].pc = "idle"
    /\ \E symbol \in FutureSymbols :
          calls' = [calls EXCEPT ![t] = [NoCall EXCEPT !.pc = "lookup",
                                                       !.symbol = Canonicalize(symbol)]]
    /\ ret' = Ret("begin", NoSymbol, DateTimeMin, NoUniverse, "none", "none")
    /\ UNCHANGED <<Securities, hostVars>>

\* Line 76: the registry is searched for the canonical symbol.
RaceLookup(t) ==
    /\ calls[t].pc = "lookup"
    /\ calls' = [calls EXCEPT
                   ![t].pc = "decide",
                   ![t].found = Matching(Securities, calls[t].symbol),
                   ![t].overlap = \E u \in Invocations \ {t} : calls[u].pc = "decide"]
    /\ ret' = Ret("lookup", calls[t].symbol, DateTimeMin, NoUniverse, "none", "none")
    /\ UNCHANGED <<Securities, hostVars>>

\* Lines 77-78: nothing was found, so the security is created.
RaceCreate(t) ==
    /\ calls[t].pc = "decide"
    /\ Len(calls[t].found) = 0
    /\ Securities' = CreateFutureChainSecurity(Securities, calls[t].symbol, EffectiveSettings)
    /\ calls' = [calls EXCEPT ![t].pc = "filter", ![t].chain = Len(Securities')]
    /\ ret' = Ret("create", calls[t].symbol, DateTimeMin, NoUniverse, "none", "none")
    /\ UNCHANGED hostVars

\* Lines 79-80: the first security found is taken.
RaceReuse(t) ==
    /\ calls[t].pc = "decide"
    /\ Len(calls[t].found) > 0
    /\ calls' = [calls EXCEPT ![t].pc = "filter", ![t].chain = calls[t].found[1].id]
    /\ ret' = Ret("reuse", calls[t].symbol, DateTimeMin, NoUniverse, "none", "none")
    /\ UNCHANGED <<Securities, hostVars>>

\* Lines 83-85: the filter is set and the universe returned.
RaceReturn(t) ==
    /\ calls[t].pc = "filter"
    /\ Securities' = SetFilter(Securities, calls[t].chain)
    /\ calls' = [calls EXCEPT ![t].pc = "returned"]
    /\ ret' = Ret("CreateFutureChain", calls[t].symbol, DateTimeMin,
                  [chain |-> calls[t].chain, Key |-> calls[t].symbol,
                   settings |-> EffectiveSettings, filter |-> "self.Filter"],
                  "none", "none")
    /\ UNCHANGED hostVars

NextRace ==
    \/ \E t \in Invocations : RaceBegin(t)
    \/ \E t \in Invocations : RaceLookup(t)
    \/ \E t \in Invocations : RaceCreate(t)
    \/ \E t \in Invocations : RaceReuse(t)
    \/ \E t \in Invocations : RaceReturn(t)

SpecRace == Init /\ [][NextRace]_vars

C2_OneUniversePerCanonical ==
    \A i, j \in 1..Len(yielded) : yielded[i].Key = yielded[j].Key => i = j

\* The canonical identifiers of the futures a selector or caller hands in.
CanonicalKeys == { Canonicalize(s) : s \in FutureSymbols }

\* C3: the registry never holds two securities for one canonical identifier,
\* the security of an identifier stays the same object from step to step, and
\* every CreateFutureChain, in a cycle or called directly, returns that one
\* object: a call after the first gets the security the first call created.
C3_IdempotentProvisioning ==
    [][ \A c \in CanonicalKeys :
          LET before == Matching(Securities, c)
              after == Matching(Securities', c)
          IN  /\ Len(after) <= 1
              /\ Len(before) = 1 => (Len(after) = 1 /\ after[1].id = before[1].id)
              /\ ( /\ ret'.op \in {"next", "CreateFutureChain"}
                   /\ ret'.universe # NoUniverse
                   /\ ret'.universe.Key = c )
                 => (Len(after) = 1 /\ ret'.universe.chain = after[1].id)
      ]_vars

\* A CreateFutureChain for a chain whose security an earlier call had
\* created returned that security and created none; the registry holds that
\* one security.
C3_Witness ==
    /\ ret.op = "CreateFutureChain"
    /\ ret.universe # NoUniverse
    /\ ~ret.created
    /\ Len(Securities) = 1
    /\ Securities[1].Key = ret.universe.Key
    /\ ret.universe.chain = Securities[1].id

\* The first position of a candidate that is not a future, 0 when all are.
FirstBad(candidates) ==
    LET bad == { i \in 1..Len(candidates) : candidates[i].SecurityType # "Future" }
    IN  IF bad = {} THEN 0 ELSE CHOOSE i \in bad : \A j \in bad : i <= j

\* C4 as stated: a selection that holds a symbol of the wrong type ends the
\* cycle with ValueError and the cycle has produced no universe.
C4_FailsWithNoUniverses ==
    (genState \in {"done", "failed"} /\ FirstBad(selection) > 0)
        => (genState = "failed" /\ genError = "ValueError" /\ yielded = <<>>)

\* C4 (amended): when the first candidate of the wrong type stands at position
\* k, the cycle never ends normally; it fails with ValueError at k, having
\* yielded one universe for each distinct candidate before k and none for k or
\* later, so none at all when k is the first position.
C4_FailsAtFirstBad ==
    LET k == FirstBad(selection)
    IN  k > 0 =>
          /\ genState # "done"
          /\ genState = "suspended" => pos <= k
          /\ genState = "failed" =>
                /\ genError = "ValueError"
                /\ pos = k
                /\ Len(yielded) = Cardinality({ selection[i] : i \in 1..(k - 1) })
                /\ k = 1 => yielded = <<>>

\* A cycle failed on its second candidate after yielding the universe of its
\* first.
C4_Witness ==
    /\ genState = "failed"
    /\ genError = "ValueError"
    /\ FirstBad(selection) = 2
    /\ Len(yielded) = 1

\* A CreateFutureChain, in a cycle or called directly, has returned a universe.
ChainReturned ==
    /\ ret.op \in {"next", "CreateFutureChain"}
    /\ ret.universe # NoUniverse

\* C5: the canonical identifier CreateFutureChain arrives at for a future is
\* a fixed point of the rewrite, Canonicalize(Canonicalize(x)) =
\* Canonicalize(x), and a symbol that came in canonical is used unchanged.
C5_CanonicalizeIdempotent ==
    ChainReturned =>
        /\ ret.universe.Key = Canonicalize(ret.symbol)
        /\ Canonicalize(ret.universe.Key) = ret.universe.Key
        /\ IsCanonical(ret.symbol) => ret.universe.Key = ret.symbol

\* CreateFutureChain was given a canonical symbol and returned its universe.
C5_Witness ==
    /\ ChainReturned
    /\ IsCanonical(ret.symbol)
    /\ ret.universe.Key = ret.symbol

\* The contracts that tell the concrete symbols of one underlying apart.
Contracts == { s.Contract : s \in FutureSymbols }

\* C6: the canonical identifier of a concrete future depends on its
\* underlying and market alone: every concrete contract of the same
\* underlying and market is rewritten to the identifier that was returned,
\* and two universes yielded for concrete symbols of one underlying and
\* market carry the same identifier.
C6_CanonicalOfUnderlying ==
    (ChainReturned /\ ~IsCanonical(ret.symbol)) =>
        /\ \A c \in Contracts :
              Canonicalize(Concrete(ret.symbol.Value, ret.symbol.Market, c))
                  = ret.universe.Key
        /\ (ret.op = "next" /\ Len(yielded) = 2 /\ pos = 3
              /\ ~IsCanonical(selection[1])
              /\ selection[1].Value = selection[2].Value
              /\ selection[1].Market = selection[2].Market)
           => yielded[1].Key = yielded[2].Key

\* A cycle was given two different concrete contracts of one underlying and
\* both universes carry the same canonical identifier.
C6_Witness ==
    /\ ret.op = "next"
    /\ Len(yielded) = 2
    /\ ~IsCanonical(selection[1])
    /\ ~IsCanonical(selection[2])
    /\ selection[1] # selection[2]
    /\ selection[1].Value = selection[2].Value
    /\ yielded[1].Key = yielded[2].Key

\* C7: until the body of CreateUniverses has run once, the next refresh time
\* is the least time there is and GetNextRefreshTimeUtc returns it, so at
\* every engine time the poll finds the refresh due.
C7_FirstPollDue ==
    ~started =>
        /\ nextRefreshTimeUtc = DateTimeMin
        /\ ret.op = "GetNextRefreshTimeUtc" =>
              /\ ret.time = DateTimeMin
              /\ \A t \in Times : ret.time <= t

\* The engine polled after the clock had moved and before any cycle ran.
C7_Witness ==
    /\ ~started
    /\ ret.op = "GetNextRefreshTimeUtc"
    /\ UtcTime > DateTimeMin
    /\ ret.time <= UtcTime

\* The elements of a sequence in the order of their first occurrence.
RECURSIVE FirstSeen(_)
FirstSeen(seq) ==
    IF seq = <<>> THEN <<>>
    ELSE LET front == FirstSeen(SubSeq(seq, 1, Len(seq) - 1))
             last == seq[Len(seq)]
         IN  IF \E i \in 1..Len(front) : front[i] = last
             THEN front
             ELSE Append(front, last)

\* C8: a cycle that ends normally has yielded exactly one universe for each
\* distinct canonical identifier of its candidates, in the order in which the
\* identifiers were first seen.
C8_OnePerCanonicalInOrder ==
    genState = "done" =>
        [i \in 1..Len(yielded) |-> yielded[i].Key]
            = FirstSeen([i \in 1..Len(selection) |-> Canonicalize(selection[i])])

\* C9: only the start of the body of CreateUniverses changes
\* nextRefreshTimeUtc; GetNextRefreshTimeUtc changes nothing of the model,
\* the algorithm or a live generator, and direct calls of CreateFutureChain,
\* CreateFutureChainSecurity and Filter leave nextRefreshTimeUtc as it was.
C9_OnlyCreateUniversesSchedules ==
    [][ /\ nextRefreshTimeUtc' # nextRefreshTimeUtc
            => (genState = "created" /\ ret'.op = "next")
        /\ ret'.op = "GetNextRefreshTimeUtc"
            => /\ UNCHANGED <<UtcTime, nextRefreshTimeUtc, refreshInterval,
                              universeSettings, Securities, started, calls>>
               /\ genState \in {"created", "suspended"} => UNCHANGED genVars
        /\ ret'.op \in {"CreateFutureChain", "CreateFutureChainSecurity", "Filter"}
            => nextRefreshTimeUtc' = nextRefreshTimeUtc
      ]_vars

\* After a cycle had moved the schedule off its first value, a security was
\* created by a direct call and the schedule stands where the cycle left it.
C9_Witness ==
    /\ ret.op = "CreateFutureChainSecurity"
    /\ started
    /\ nextRefreshTimeUtc > DateTimeMin
    /\ nextRefreshTimeUtc = startTime + refreshInterval

\* C10: no step takes a security out of the registry or changes the
\* identifier or the object an entry stands for; a cycle, ended normally or
\* by an exception, only adds entries behind those that were there.
C10_RegistryOnlyGrows ==
    [][ /\ Len(Securities') >= Len(Securities)
        /\ \A i \in 1..Len(Securities) :
              /\ Securities'[i].Key = Securities[i].Key
              /\ Securities'[i].id = Securities[i].id
      ]_vars

\* A cycle failed without yielding anything while the registry holds the
\* security an earlier cycle or call created.
C10_Witness ==
    /\ genState = "failed"
    /\ genError = "ValueError"
    /\ yielded = <<>>
    /\ started
    /\ Len(Securities) > 0
    /\ Securities[1].id = 1

\* What the code does where C8 says otherwise: the universes of a cycle that
\* ended normally are those of its distinct candidates, in first-seen order.
OnePerCandidateInOrder ==
    genState = "done" =>
        [i \in 1..Len(yielded) |-> yielded[i].Key]
            = [i \in 1..Len(FirstSeen(selection)) |-> Canonicalize(FirstSeen(selection)[i])]

\* C11: two securities for one canonical identifier come about only when an
\* invocation searched the registry while the other stood between its own
\* search and its create; invocations that do not interleave so leave at most
\* one, and two invocations never leave more than two.
C11_DoubleCreateOnlyByRace ==
    \A c \in CanonicalKeys :
        LET held == { i \in 1..Len(Securities) : Securities[i].Key = c }
        IN  /\ Cardinality(held) <= 2
            /\ Cardinality(held) = 2 =>
                  \E t \in Invocations :
                      /\ calls[t].overlap
                      /\ calls[t].symbol = c
                      /\ calls[t].found = <<>>

\* Both invocations searched for the same absent identifier before either
\* created, and the registry holds two securities for it.
C11_Witness ==
    /\ calls[1].symbol = calls[2].symbol
    /\ calls[1].found = <<>>
    /\ calls[2].found = <<>>
    /\ calls[1].pc = "returned"
    /\ calls[2].pc = "returned"
    /\ calls[1].chain # calls[2].chain
    /\ Cardinality({ i \in 1..Len(Securities) : Securities[i].Key = calls[1].symbol }) = 2

\* C12: the chain security of every universe handed out, in a cycle or by a
\* direct call, carries the model's Filter at that moment, whether the call
\* created the security or found it in the registry with no filter yet; so
\* does the security of every universe the running cycle has yielded.  The
\* Filter itself returns the filter universe it was given.
C12_FilterAttached ==
    /\ ChainReturned =>
          /\ Securities[ret.universe.chain].filter = "self.Filter"
          /\ ret.universe.filter = "self.Filter"
    /\ \A i \in 1..Len(yielded) : Securities[yielded[i].chain].filter = "self.Filter"
    /\ ret.op = "Filter" => ret.filter = ret.argument

\* A cycle yielded the universe of a security that a direct
\* CreateFutureChainSecurity had put in the registry, and the security now
\* carries the Filter.
C12_Witness ==
    /\ ret.op = "next"
    /\ ret.universe # NoUniverse
    /\ ~ret.created
    /\ Len(Securities) = 1
    /\ Securities[ret.universe.chain].filter = "self.Filter"

\* The securities of a canonical identifier that were in the registry before
\* the body of the running cycle started: under SpecCycles, those an earlier
\* cycle created when it yielded the identifier's universe.
FromEarlierCycle(c) == SelectSeq(Matching(Securities, c), LAMBDA s : s.id <= sizeAtStart)

\* The positions at which the running cycle yielded a universe for c.
YieldsOf(c) == { i \in 1..Len(yielded) : yielded[i].Key = c }

\* C13: a cycle that ends normally has yielded, for every canonical
\* identifier an earlier cycle yielded and its own selection contains, exactly
\* one universe, and that universe holds the security of the earlier cycle.
C13_YieldedAgainOnce ==
    genState = "done" =>
        \A c \in CanonicalKeys :
            ( /\ FromEarlierCycle(c) # <<>>
              /\ \E i \in 1..Len(selection) : Canonicalize(selection[i]) = c )
            => /\ Cardinality(YieldsOf(c)) = 1
               /\ \A i \in YieldsOf(c) : yielded[i].chain = FromEarlierCycle(c)[1].id

\* What the code does where C13 says otherwise: the identifier is yielded
\* again once for each distinct candidate of its chain, every time with the
\* security of the earlier cycle, and no further security is created for it.
YieldedAgainPerCandidate ==
    genState = "done" =>
        \A c \in CanonicalKeys :
            FromEarlierCycle(c) # <<>> =>
                /\ Cardinality(YieldsOf(c))
                      = Cardinality({ selection[i] : i \in
                            { j \in 1..Len(selection) : Canonicalize(selection[j]) = c } })
                /\ \A i \in YieldsOf(c) : yielded[i].chain = FromEarlierCycle(c)[1].id
                /\ Len(Matching(Securities, c)) = 1

\* C14: the universe CreateFutureChain returns holds the settings the model
\* was given, or the engine's when it was given none, and a security the call
\* created was created with those same settings.
C14_EffectiveSettings ==
    ChainReturned =>
        LET expected == IF universeSettings = "None"
                        THEN "algorithm.UniverseSettings"
                        ELSE universeSettings
        IN  /\ ret.universe.settings = expected
            /\ ret.created => Securities[ret.universe.chain].settings = expected

C14_Witness ==
    /\ ChainReturned
    /\ ret.created
    /\ universeSettings = "custom"
    /\ Securities[ret.universe.chain].settings = "custom"

\* C15: CreateFutureChain called directly with a symbol that is not a future
\* raises ValueError and returns no universe, and the call leaves the registry
\* (its securities and their filters) and nextRefreshTimeUtc as they were.
C15_NonFutureRejected ==
    [][ (ret'.op = "CreateFutureChain" /\ ret'.symbol.SecurityType # "Future")
            => /\ ret'.error = "ValueError"
               /\ ret'.universe = NoUniverse
               /\ ~ret'.created
               /\ UNCHANGED <<Securities, nextRefreshTimeUtc>> ]_vars

C15_Witness ==
    /\ ret.op = "CreateFutureChain"
    /\ ret.symbol = EquitySymbol
    /\ ret.error = "ValueError"
    /\ Len(Securities) > 0
    /\ started

\* C16: calling CreateUniverses does nothing that can be seen: the schedule,
\* the registry and the clock stay, and no selection is taken.  As long as no
\* element has been asked for, the schedule stays and the selector has not
\* been called.  The request for the first element advances the schedule to
\* the engine time of that request plus the interval.
C16_LazyBody ==
    [][ /\ ret'.op = "CreateUniverses"
            => /\ UNCHANGED <<nextRefreshTimeUtc, Securities, UtcTime, started, startTime>>
               /\ selection' = <<>>
               /\ yielded' = <<>>
        /\ (genState = "created" /\ genState' = "created")
            => /\ UNCHANGED <<nextRefreshTimeUtc, started, startTime>>
               /\ selection' = <<>>
               /\ yielded' = <<>>
        /\ (genState = "created" /\ ret'.op = "next")
            => /\ nextRefreshTimeUtc' = UtcTime + refreshInterval
               /\ startTime' = UtcTime ]_vars

C16_Witness ==
    /\ genState = "created"
    /\ ret.op = "Tick"
    /\ UtcTime > DateTimeMin
    /\ nextRefreshTimeUtc = DateTimeMin
    /\ ~started
    /\ selection = <<>>

\* The securities the running cycle has put in the registry.
MadeInCycle == { i \in 1..Len(Securities) : i > sizeAtStart }

\* C17: a cycle that has been asked for elements has yielded one universe
\* for each distinct candidate it has passed, and the securities it has
\* created are securities of universes it has yielded: none for a candidate
\* it has not reached.  A cycle that fails with ValueError stands at the first
\* candidate of the wrong type, k, with the universes of the distinct
\* candidates before k yielded; no cycle passes k.
C17_PartialProgress ==
    (genState \in {"suspended", "done", "failed"} \/ (genState = "closed" /\ yielded # <<>>))
        => /\ Len(yielded) = Cardinality({ selection[j] : j \in 1..(pos - 1) })
           /\ \A j \in 1..Len(yielded) :
                 /\ yielded[j].chain \in 1..Len(Securities)
                 /\ Securities[yielded[j].chain].Key = yielded[j].Key
                 /\ \E n \in 1..(pos - 1) : Canonicalize(selection[n]) = yielded[j].Key
           /\ \A i \in MadeInCycle :
                 \E j \in 1..Len(yielded) : yielded[j].chain = Securities[i].id
           /\ Cardinality(MadeInCycle) <= Len(yielded)
           /\ (genState = "failed" /\ genError = "ValueError") => pos = FirstBad(selection)
           /\ FirstBad(selection) > 0 => pos <= FirstBad(selection)

C17_Witness ==
    /\ genState = "failed"
    /\ genError = "ValueError"
    /\ Len(selection) = 2
    /\ FirstBad(selection) = 2
    /\ Len(yielded) = 1
    /\ Cardinality(MadeInCycle) = 1
    /\ Securities[Len(Securities)].Key = Canonicalize(selection[1])
====
